---- MODULE Spec2Model ----
(***************************************************************************)
(* paypal_api.interface.PayPalInterface: assembling the NVP parameter map  *)
(* of a call, the single HTTP GET, and the classification of the reply.    *)
(*                                                                         *)
(* Parameter names and the reply's fields are sequences of one-character   *)
(* strings, so that str.upper() and str.lower() are computed.  Parameter   *)
(* values are never inspected by the interface and are kept atomic.        *)
(***************************************************************************)
EXTENDS Integers, Sequences, FiniteSets, TLC

\* Largest number of keyword arguments a caller adds to the required ones.
MaxFree == 2

(***************************************************************************)
(* String literals of the source, as character sequences.                  *)
(***************************************************************************)
s_METHOD == <<"M", "E", "T", "H", "O", "D">>
s_VERSION == <<"V", "E", "R", "S", "I", "O", "N">>
s_USER == <<"U", "S", "E", "R">>
s_PWD == <<"P", "W", "D">>
s_SIGNATURE == <<"S", "I", "G", "N", "A", "T", "U", "R", "E">>
s_SUBJECT == <<"S", "U", "B", "J", "E", "C", "T">>
s_ACK == <<"A", "C", "K">>
s_CORRELATIONID == <<"C", "O", "R", "R", "E", "L", "A", "T", "I", "O", "N", "I", "D">>
s_L_LONGMESSAGE0 == <<"L", "_", "L", "O", "N", "G", "M", "E", "S", "S", "A", "G", "E", "0">>
s_self == <<"s", "e", "l", "f">>
s_kwargs == <<"k", "w", "a", "r", "g", "s">>
s_email == <<"e", "m", "a", "i", "l">>
s_street == <<"s", "t", "r", "e", "e", "t">>
s_token == <<"t", "o", "k", "e", "n">>
s_zip == <<"z", "i", "p">>
s_transactionid == <<"t", "r", "a", "n", "s", "a", "c", "t", "i", "o", "n", "i", "d">>
s_amt == <<"a", "m", "t">>
s_authorizationid == <<"a", "u", "t", "h", "o", "r", "i", "z", "a", "t", "i", "o", "n", "i", "d">>
s_completetype == <<"c", "o", "m", "p", "l", "e", "t", "e", "t", "y", "p", "e">>
s_paymentaction == <<"p", "a", "y", "m", "e", "n", "t", "a", "c", "t", "i", "o", "n">>
s_profileid == <<"p", "r", "o", "f", "i", "l", "e", "i", "d">>
s_action == <<"a", "c", "t", "i", "o", "n">>
s_business == <<"b", "u", "s", "i", "n", "e", "s", "s">>
s_item_name_1 == <<"i", "t", "e", "m", "_", "n", "a", "m", "e", "_", "1">>
s_amount_1 == <<"a", "m", "o", "u", "n", "t", "_", "1">>
s_quantity_1 == <<"q", "u", "a", "n", "t", "i", "t", "y", "_", "1">>
s_PAYMENTACTION == <<"P", "A", "Y", "M", "E", "N", "T", "A", "C", "T", "I", "O", "N">>
s_PaymentAction == <<"P", "a", "y", "m", "e", "n", "t", "A", "c", "t", "i", "o", "n">>
s_COMPLETETYPE == <<"C", "O", "M", "P", "L", "E", "T", "E", "T", "Y", "P", "E">>
s_version == <<"v", "e", "r", "s", "i", "o", "n">>
s_user == <<"u", "s", "e", "r">>
s_AMT == <<"A", "M", "T">>
s_l_email0 == <<"l", "_", "e", "m", "a", "i", "l", "0">>
s_Business == <<"B", "u", "s", "i", "n", "e", "s", "s">>
s_Success == <<"S", "u", "c", "c", "e", "s", "s">>
s_success == <<"s", "u", "c", "c", "e", "s", "s">>
s_SuccessWithWarning == <<"S", "u", "c", "c", "e", "s", "s", "W", "i", "t", "h", "W", "a", "r", "n", "i", "n", "g">>
s_Failure == <<"F", "a", "i", "l", "u", "r", "e">>
s_SUCCESS == <<"S", "U", "C", "C", "E", "S", "S">>
s_SUCCESSWITHWARNING == <<"S", "U", "C", "C", "E", "S", "S", "W", "I", "T", "H", "W", "A", "R", "N", "I", "N", "G">>

LowerAlphabet == <<"a","b","c","d","e","f","g","h","i","j","k","l","m",
                   "n","o","p","q","r","s","t","u","v","w","x","y","z">>
UpperAlphabet == <<"A","B","C","D","E","F","G","H","I","J","K","L","M",
                   "N","O","P","Q","R","S","T","U","V","W","X","Y","Z">>

OtherCharacters == {"0", "1", "2", "3", "4", "5", "6", "7", "8", "9", "_", " "}

Characters ==
    {LowerAlphabet[j] : j \in 1..Len(LowerAlphabet)}
        \cup {UpperAlphabet[j] : j \in 1..Len(UpperAlphabet)}
        \cup OtherCharacters

\* A lower-case letter becomes its capital, every other character is kept.
ToUpper ==
    [c \in Characters |->
        IF \E j \in 1..Len(LowerAlphabet) : LowerAlphabet[j] = c
        THEN UpperAlphabet[CHOOSE j \in 1..Len(LowerAlphabet) : LowerAlphabet[j] = c]
        ELSE c]

\* A capital becomes its lower-case letter, every other character is kept.
ToLower ==
    [c \in Characters |->
        IF \E j \in 1..Len(UpperAlphabet) : UpperAlphabet[j] = c
        THEN LowerAlphabet[CHOOSE j \in 1..Len(UpperAlphabet) : UpperAlphabet[j] = c]
        ELSE c]

\* str.upper()
upper(s) == [i \in 1..Len(s) |-> ToUpper[s[i]]]

\* str.lower()
lower(s) == [i \in 1..Len(s) |-> ToLower[s[i]]]

(***************************************************************************)
(* Python values and dicts.  A dict is a function from its keys.           *)
(***************************************************************************)
None == [none |-> TRUE]
Str(s) == [kind |-> "str", s |-> s]
\* locals()['self'] and locals()['kwargs'] are references to objects.
SelfObject == [kind |-> "object", s |-> "self"]
KwargsDict == [kind |-> "dict", s |-> "kwargs"]
EmptyDict == [k \in {} |-> None]

\* dict.update(e): the entries of e replace and extend those of d.
DictUpdate(d, e) == e @@ d
\* del d[k] on a copy
DictDel(d, k) == [x \in (DOMAIN d) \ {k} |-> d[x]]

(***************************************************************************)
(* The configuration object (paypal_api.settings.PayPalConfig) as _call    *)
(* and the URL generators read it.                                         *)
(***************************************************************************)
Modes == {"3TOKEN", "UNIPAY", "CERTIFICATE"}

Configs ==
    { [ API_AUTHENTICATION_MODE |-> m,
        API_VERSION     |-> "72.0",
        API_USERNAME    |-> "api_username",
        API_PASSWORD    |-> "api_password",
        API_SIGNATURE   |-> "api_signature",
        UNIPAY_SUBJECT  |-> "merchant@example.com",
        API_ENDPOINT    |-> "https://api-3t.sandbox.paypal.com/nvp",
        PAYPAL_URL_BASE |-> "https://www.sandbox.paypal.com/webscr",
        HTTP_TIMEOUT    |-> "15s",
        API_CA_CERTS    |-> "verify" ] : m \in Modes }

(***************************************************************************)
(* The NVP reply texts the service may send: key=value pairs joined by &.  *)
(***************************************************************************)
CorrelationOk == <<"9", "7", "3", "e">>
CorrelationFail == <<"4", "6", "c", "8">>
LongMessage == <<"e", "m", "a", "i", "l", " ", "i", "s", " ",
                     "m", "i", "s", "s", "i", "n", "g">>

Replies ==
    { << <<s_ACK, s_Success>>, <<s_CORRELATIONID, CorrelationOk>> >>,
      << <<s_ACK, s_success>> >>,
      << <<s_CORRELATIONID, CorrelationOk>>, <<s_ACK, s_SuccessWithWarning>> >>,
      << <<s_ACK, s_Failure>>, <<s_CORRELATIONID, CorrelationFail>>,
         <<s_L_LONGMESSAGE0, LongMessage>> >>,
      << <<s_ACK, s_Failure>> >>,
      << <<s_CORRELATIONID, CorrelationFail>> >> }

\* The decoded mapping of a reply text.
ParseNVP(text) ==
    [k \in {text[i][1] : i \in 1..Len(text)} |->
        text[CHOOSE i \in 1..Len(text) : text[i][1] = k][2]]

\* PayPalResponse(query_string, config)
PayPalResponse(query_string) == [raw |-> ParseNVP(query_string)]

\* Whether the response has the field; an absent field is unavailable.
HasField(response, key) == upper(key) \in DOMAIN response.raw

\* response.<key>
Field(response, key) == response.raw[upper(key)]

AcceptedSuccess == {s_SUCCESS, s_SUCCESSWITHWARNING}

\* response.success
success(response) ==
    /\ HasField(response, s_ACK)
    /\ upper(Field(response, s_ACK)) \in AcceptedSuccess

\* PayPalAPIResponseError(response)
PayPalAPIResponseError(response) ==
    [kind |-> "PayPalAPIResponseError", response |-> response]

\* PayPalError(message)
PayPalError(message, req) ==
    [kind |-> "PayPalError", message |-> message, req |-> req]

Return(value) == [kind |-> "return", value |-> value]
NoOutcome == [kind |-> "none"]

(***************************************************************************)
(* State.                                                                  *)
(***************************************************************************)
VARIABLES
    objects,      \* the PayPalConfig objects: identity |-> fields
    self_config,  \* self.config: the identity of the interface's config
    pc,           \* "idle", or the position of the running _call
    cur,          \* the running (or last) invocation: operation and arguments
    url_values,   \* _call's url_values
    http,         \* the HTTP GETs issued by the invocation, in order
    req_text,     \* req.text, the reply of the GET
    response,     \* _call's response
    outcome       \* what the invocation returned or raised

vars == <<objects, self_config, pc, cur, url_values, http, req_text,
          response, outcome>>

\* self.config
config == objects[self_config]

\* PayPalInterface(config=..., **kwargs): self.config is the config object
\* given, or the one made of kwargs.
Init ==
    /\ self_config = "PayPalConfig#1"
    /\ \E c \in Configs : objects = (self_config :> c)
    /\ pc = "idle"
    /\ cur = None
    /\ url_values = EmptyDict
    /\ http = <<>>
    /\ req_text = None
    /\ response = None
    /\ outcome = NoOutcome

(***************************************************************************)
(* Python's binding of a call's keyword arguments kw to a signature with   *)
(* the named parameters params, the defaults of some of them, and **kwargs.*)
(***************************************************************************)
Named(params, defaults, kw) ==
    [p \in params |-> IF p \in DOMAIN kw THEN kw[p] ELSE defaults[p]]

Rest(params, kw) == [k \in (DOMAIN kw) \ params |-> kw[k]]

\* locals() in a method with these named arguments and no **kwargs
locals(named) == (s_self :> SelfObject) @@ named

\* locals() in a method that also takes **kwargs
localsKw(named) == (s_self :> SelfObject) @@ (s_kwargs :> KwargsDict) @@ named

_sanitize_locals(data) ==
    IF s_self \in DOMAIN data THEN DictDel(data, s_self) ELSE data

(***************************************************************************)
(* _call(method, **kwargs)                                                 *)
(***************************************************************************)
\* The credentials of the configured authentication mode.
Credentials(c) ==
    IF c.API_AUTHENTICATION_MODE = "3TOKEN"
    THEN (s_USER :> Str(c.API_USERNAME)) @@ (s_PWD :> Str(c.API_PASSWORD))
            @@ (s_SIGNATURE :> Str(c.API_SIGNATURE))
    ELSE IF c.API_AUTHENTICATION_MODE = "UNIPAY"
    THEN (s_SUBJECT :> Str(c.UNIPAY_SUBJECT))
    ELSE EmptyDict

\* url_values before the loop over kwargs
FixedValues(c, method) ==
    DictUpdate((s_METHOD :> Str(method)) @@ (s_VERSION :> Str(c.API_VERSION)),
               Credentials(c))

\* For each upper-cased name of kwargs, a key that kwargs.items() may yield
\* last among the keys with that upper-cased name: the source fixes no order
\* of a dict's items.
RECURSIVE LastOfEach(_, _)
LastOfEach(kwargs, uppers) ==
    IF uppers = {} THEN {EmptyDict}
    ELSE LET U == CHOOSE u \in uppers : TRUE
         IN  { (U :> k) @@ w :
                  k \in {x \in DOMAIN kwargs : upper(x) = U},
                  w \in LastOfEach(kwargs, uppers \ {U}) }

items(kwargs) == LastOfEach(kwargs, {upper(k) : k \in DOMAIN kwargs})

\* The loop without key.upper()
SetAsGiven(values, kwargs, last) == DictUpdate(values, kwargs)

\* url_values after "for key, value in kwargs.items():
\*                       url_values[key.upper()] = value"
SetUpper(values, kwargs, last) ==
    DictUpdate(values, [U \in DOMAIN last |-> kwargs[last[U]]])

UrlValues(c, method, kwargs, last) ==
    SetUpper(FixedValues(c, method), kwargs, last)

\* A _call that records the method of the call in its configuration
_call_recording(op, kw, method, kwargs) ==
    /\ pc = "idle"
    /\ \E last \in items(kwargs) :
          url_values' = UrlValues(config, method, kwargs, last)
    /\ cur' = [op |-> op, kw |-> kw, method |-> method, kwargs |-> kwargs]
    /\ http' = <<>>
    /\ req_text' = None
    /\ response' = None
    /\ outcome' = NoOutcome
    /\ pc' = "request"
    /\ objects' = [objects EXCEPT ![self_config].API_VERSION = method]
    /\ UNCHANGED self_config

\* An operation op, called with the keywords kw, enters _call.
_call(op, kw, method, kwargs) ==
    /\ pc = "idle"
    /\ \E last \in items(kwargs) :
          url_values' = UrlValues(config, method, kwargs, last)
    /\ cur' = [op |-> op, kw |-> kw, method |-> method, kwargs |-> kwargs]
    /\ http' = <<>>
    /\ req_text' = None
    /\ response' = None
    /\ outcome' = NoOutcome
    /\ pc' = "request"
    /\ UNCHANGED <<objects, self_config>>

\* requests.get(self.config.API_ENDPOINT, params=url_values, ...)
Request(c, params) ==
    [url |-> c.API_ENDPOINT, params |-> params,
     timeout |-> c.HTTP_TIMEOUT, verify |-> c.API_CA_CERTS]

requests_get ==
    /\ pc = "request"
    /\ http' = Append(http, Request(config, url_values))
    /\ \E text \in Replies : req_text' = text
    /\ pc' = "reply"
    /\ UNCHANGED <<objects, self_config, cur, url_values, response, outcome>>

\* A check that also demands the correlation id
RaisesUnlessCorrelated(r) == ~ success(r) \/ ~ HasField(r, s_CORRELATIONID)

\* Whether _call raises on this response
Raises(r) == ~ success(r)

\* _call without its check of the success flag
ResultUnchecked(r) == Return(r)

\* What _call does with the response
Result(r) == IF Raises(r) THEN PayPalAPIResponseError(r) ELSE Return(r)

\* A _call that asks again when the reply is a failure
_call_retrying ==
    /\ pc = "reply"
    /\ response' = PayPalResponse(req_text)
    /\ IF Raises(response')
       THEN pc' = "request" /\ outcome' = NoOutcome
       ELSE pc' = "done" /\ outcome' = Return(response')
    /\ UNCHANGED <<objects, self_config, cur, url_values, http, req_text>>

\* response = PayPalResponse(req.text, self.config); raise or return
_call_response ==
    /\ pc = "reply"
    /\ response' = PayPalResponse(req_text)
    /\ outcome' = Result(response')
    /\ pc' = "done"
    /\ UNCHANGED <<objects, self_config, cur, url_values, http, req_text>>

(***************************************************************************)
(* The keyword arguments callers pass.                                     *)
(***************************************************************************)
Items ==
    { <<s_amt, Str("10.00")>>,
      <<s_AMT, Str("20.00")>>,
      <<s_paymentaction, Str("Authorization")>>,
      <<s_PAYMENTACTION, Str("Order")>>,
      <<s_PaymentAction, Str("Authorization")>>,
      <<s_completetype, Str("NotComplete")>>,
      <<s_COMPLETETYPE, Str("NotComplete")>>,
      <<s_METHOD, Str("RefundTransaction")>>,
      <<s_version, Str("1.0")>>,
      <<s_user, Str("other_username")>>,
      <<s_SUBJECT, Str("third@example.com")>>,
      <<s_l_email0, Str("payee@example.com")>> }

\* The dict of a set of items with distinct names
DictOf(T) == [k \in {t[1] : t \in T} |-> (CHOOSE t \in T : t[1] = k)[2]]

\* At most MaxFree of the items, none named as a required argument
FreeKw(required) ==
    { DictOf(T) : T \in { T \in SUBSET {t \in Items : t[1] \notin DOMAIN required} :
                            Cardinality(T) <= MaxFree } }

\* The calls of a method with the required arguments and free keywords
KwInputs(required) == { required @@ free : free \in FreeKw(required) }

NoDefaults == EmptyDict

(***************************************************************************)
(* The convenience wrappers.                                               *)
(***************************************************************************)
\* def m(self, a, b): args = self._sanitize_locals(locals());
\*                    return self._call(M, **args)
address_verify ==
    /\ pc = "idle"
    /\ \E email \in {Str("payer@example.com")}, street \in {Str("1 Main St")},
       zip \in {Str("95131"), Str("90110")} :
       LET kw == (s_email :> email) @@ (s_street :> street) @@ (s_zip :> zip)
           args == _sanitize_locals(locals(Named({s_email, s_street, s_zip}, NoDefaults, kw)))
       IN  _call("address_verify", kw, "AddressVerify", args)

create_recurring_payments_profile ==
    /\ pc = "idle"
    /\ \E kw \in KwInputs(EmptyDict) :
       _call("create_recurring_payments_profile", kw,
             "CreateRecurringPaymentsProfile", kw)

do_authorization ==
    /\ pc = "idle"
    /\ \E transactionid \in {Str("TX-1")}, amt \in {Str("10.00"), Str("20.00")} :
       LET kw == (s_transactionid :> transactionid) @@ (s_amt :> amt)
           args == _sanitize_locals(locals(Named({s_transactionid, s_amt}, NoDefaults, kw)))
       IN  _call("do_authorization", kw, "DoAuthorization", args)

\* kwargs.update(self._sanitize_locals(locals()))
UpdateWithLocals(kwargs, named) ==
    DictUpdate(kwargs, _sanitize_locals(localsKw(named)))

do_capture ==
    /\ pc = "idle"
    /\ \E kw \in KwInputs((s_authorizationid :> Str("AUTH-1")) @@ (s_amt :> Str("10.00"))) :
       LET params == {s_authorizationid, s_amt, s_completetype}
           named  == Named(params, (s_completetype :> Str("Complete")), kw)
           kwargs == UpdateWithLocals(Rest(params, kw), named)
       IN  _call("do_capture", kw, "DoCapture", kwargs)

do_direct_payment ==
    /\ pc = "idle"
    /\ \E kw \in KwInputs(EmptyDict) :
       LET params == {s_paymentaction}
           named  == Named(params, (s_paymentaction :> Str("Sale")), kw)
           kwargs == UpdateWithLocals(Rest(params, kw), named)
       IN  _call("do_direct_payment", kw, "DoDirectPayment", kwargs)

do_mass_pay ==
    /\ pc = "idle"
    /\ \E kw \in KwInputs(EmptyDict) :
       _call("do_mass_pay", kw, "MassPay", kw)

do_void ==
    /\ pc = "idle"
    /\ \E kw \in KwInputs(EmptyDict) :
       _call("do_void", kw, "DoVoid", kw)

get_express_checkout_details ==
    /\ pc = "idle"
    /\ \E kw \in KwInputs(EmptyDict) :
       _call("get_express_checkout_details", kw, "GetExpressCheckoutDetails", kw)

get_transaction_details ==
    /\ pc = "idle"
    /\ \E kw \in KwInputs(EmptyDict) :
       _call("get_transaction_details", kw, "GetTransactionDetails", kw)

set_express_checkout ==
    /\ pc = "idle"
    /\ \E kw \in KwInputs(EmptyDict) :
       _call("set_express_checkout", kw, "SetExpressCheckout", kw)

do_express_checkout_payment ==
    /\ pc = "idle"
    /\ \E kw \in KwInputs(EmptyDict) :
       _call("do_express_checkout_payment", kw, "DoExpressCheckoutPayment", kw)

get_recurring_payments_profile_details ==
    /\ pc = "idle"
    /\ \E profileid \in {Str("I-1"), Str("I-2")} :
       LET kw == (s_profileid :> profileid)
           args == _sanitize_locals(locals(Named({s_profileid}, NoDefaults, kw)))
       IN  _call("get_recurring_payments_profile_details", kw,
                 "GetRecurringPaymentsProfileDetails", args)

manage_recurring_payments_profile_status ==
    /\ pc = "idle"
    /\ \E profileid \in {Str("I-1")}, action \in {Str("Cancel"), Str("Suspend")} :
       LET kw == (s_profileid :> profileid) @@ (s_action :> action)
           args == _sanitize_locals(locals(Named({s_profileid, s_action}, NoDefaults, kw)))
       IN  _call("manage_recurring_payments_profile_status", kw,
                 "ManageRecurringPaymentsProfileStatus", args)

update_recurring_payments_profile ==
    /\ pc = "idle"
    /\ \E kw \in KwInputs((s_profileid :> Str("I-1"))) :
       LET params == {s_profileid}
           named  == Named(params, NoDefaults, kw)
           kwargs == UpdateWithLocals(Rest(params, kw), named)
       IN  _call("update_recurring_payments_profile", kw,
                 "UpdateRecurringPaymentsProfile", kwargs)

bm_create_button ==
    /\ pc = "idle"
    /\ \E kw \in KwInputs(EmptyDict) :
       LET named  == Named({}, NoDefaults, kw)
           kwargs == UpdateWithLocals(Rest({}, kw), named)
       IN  _call("bm_create_button", kw, "BMCreateButton", kwargs)

\* A caller of _call itself.
call ==
    /\ pc = "idle"
    /\ \E method \in {"GetBalance"}, kw \in KwInputs(EmptyDict) :
       _call("_call", kw, method, kw)

(***************************************************************************)
(* The redirect URLs.                                                      *)
(***************************************************************************)
\* An operation that makes no request ends with a result or an exception.
Local(op, kw, result) ==
    /\ pc = "idle"
    /\ cur' = [op |-> op, kw |-> kw, method |-> "", kwargs |-> kw]
    /\ outcome' = result
    /\ pc' = "done"
    /\ url_values' = EmptyDict
    /\ http' = <<>>
    /\ req_text' = None
    /\ response' = None
    /\ UNCHANGED <<objects, self_config>>

generate_express_checkout_redirect_url ==
    /\ pc = "idle"
    /\ \E token \in {Str("EC-1"), Str("EC-2")} :
       Local("generate_express_checkout_redirect_url", (s_token :> token),
             Return([base |-> config.PAYPAL_URL_BASE,
                     query |-> "?cmd=_express-checkout&token=",
                     additional |-> <<token>>]))

\* A check that accepts a required name in any letter case
MissingAnyCase(requires, kwargs) ==
    { i \in 1..Len(requires) :
        \A k \in DOMAIN kwargs : upper(k) # upper(requires[i]) }

\* The positions in requires of the names _check_required finds missing
Missing(requires, kwargs) ==
    { i \in 1..Len(requires) :
        /\ lower(requires[i]) \notin DOMAIN kwargs
        /\ upper(requires[i]) \notin DOMAIN kwargs }

\* A check that lets everything pass
_check_nothing(requires, kwargs) == None

\* _check_required(requires, **kwargs): the exception raised, or None
_check_required(requires, kwargs) ==
    IF Missing(requires, kwargs) = {} THEN None
    ELSE LET first == CHOOSE i \in Missing(requires, kwargs) :
                         \A j \in Missing(requires, kwargs) : i <= j
         IN  PayPalError("missing required : %s", requires[first])

required_vals == <<s_business, s_item_name_1, s_amount_1, s_quantity_1>>

\* The orders in which a dict may yield its keys
RECURSIVE Orders(_)
Orders(keys) ==
    IF keys = {} THEN {<<>>}
    ELSE UNION { { <<k>> \o o : o \in Orders(keys \ {k}) } : k \in keys }

\* urllib's quote_plus of a key or a value
quote_plus(x) == [quote_plus |-> x]

\* urlencode(additional): the quoted pairs, in the dict's order
urlencode(additional, order) ==
    [i \in 1..Len(order) |->
        <<quote_plus(order[i]), quote_plus(additional[order[i]])>>]

\* _encode_utf8(**kwargs): the values of the model are str already
_encode_utf8(kwargs) == kwargs

\* The spellings a caller may give the names of the cart's parameters
CartSpellings(req) ==
    IF req = s_business THEN {lower(req), upper(req), s_Business}
    ELSE {lower(req), upper(req)}

CartInputs ==
    { DictOf(T) :
        T \in { T \in SUBSET { <<k, Str("1")>> :
                                 k \in UNION { CartSpellings(required_vals[i]) :
                                                 i \in 1..Len(required_vals) } } :
                  \A i \in 1..Len(required_vals) :
                     Cardinality({t \in T : t[1] \in CartSpellings(required_vals[i])}) <= 1 } }

generate_cart_upload_redirect_url ==
    /\ pc = "idle"
    /\ \E kw \in CartInputs :
       LET error == _check_required(required_vals, kw)
       IN  IF error # None
           THEN Local("generate_cart_upload_redirect_url", kw, error)
           ELSE \E order \in Orders(DOMAIN kw) :
                   Local("generate_cart_upload_redirect_url", kw,
                         Return([base |-> config.PAYPAL_URL_BASE,
                                 query |-> "?cmd=_cart&upload=1",
                                 additional |-> urlencode(_encode_utf8(kw), order)]))

\* The caller has the result (or the exception) and the frame is gone.
Resume ==
    /\ pc = "done"
    /\ pc' = "idle"
    /\ cur' = None
    /\ url_values' = EmptyDict
    /\ http' = <<>>
    /\ req_text' = None
    /\ response' = None
    /\ outcome' = NoOutcome
    /\ UNCHANGED <<objects, self_config>>

(***************************************************************************)
(* Properties.                                                             *)
(***************************************************************************)
\* The invocation went through _call and its GET has been issued.
Sent == pc \in {"reply", "done"} /\ Len(http) >= 1
\* The parameter map handed to the GET
Params == http[1].params
\* _call has finished: it has returned or raised.
CallDone == pc = "done" /\ Len(http) >= 1
\* The values the caller gave under any spelling of the name
Given(kw, name) == { kw[k] : k \in {x \in DOMAIN kw : upper(x) = upper(name)} }
\* The fields of the raw reply are exactly the fields of the response.
SameFields(r, text) ==
    /\ DOMAIN r.raw = {text[i][1] : i \in 1..Len(text)}
    /\ \A i \in 1..Len(text) : r.raw[text[i][1]] = text[i][2]

\* C1: _call returns the parsed response if and only if the response's
\* success flag is true; otherwise it raises PayPalAPIResponseError, returns
\* nothing, and the error carries the response parsed from this very reply,
\* field by field.
C1_ReturnsIffSuccess ==
    CallDone =>
        /\ SameFields(response, req_text)
        /\ (outcome.kind = "return") <=> success(response)
        /\ outcome.kind = "return" => outcome.value = response
        /\ ~ success(response) =>
              /\ outcome.kind = "PayPalAPIResponseError"
              /\ outcome.response = response
              /\ SameFields(outcome.response, req_text)

C1_Witness ==
    /\ CallDone
    /\ outcome.kind = "PayPalAPIResponseError"
    /\ HasField(outcome.response, s_CORRELATIONID)
    /\ Field(outcome.response, s_CORRELATIONID) = CorrelationFail
    /\ HasField(outcome.response, s_L_LONGMESSAGE0)
    /\ Field(outcome.response, s_L_LONGMESSAGE0) = LongMessage

\* C2 as stated: every name handed to the GET is upper case, and every pair
\* (k, v) passed to _call is transmitted as (upper(k), v).
C2_EveryPairTransmitted ==
    Sent =>
        /\ \A n \in DOMAIN Params : n = upper(n)
        /\ \A k \in DOMAIN cur.kwargs :
              /\ upper(k) \in DOMAIN Params
              /\ Params[upper(k)] = cur.kwargs[k]

\* C2, amended: every name handed to the GET is upper case, and for every
\* pair (k, v) passed to _call the name upper(k) is transmitted with the value
\* of one of the passed names whose upper-case form is upper(k): with v
\* itself when k is the only such name.
C2_UpperCased ==
    Sent =>
        /\ \A n \in DOMAIN Params : n = upper(n)
        /\ \A k \in DOMAIN cur.kwargs :
              /\ upper(k) \in DOMAIN Params
              /\ Params[upper(k)] \in Given(cur.kwargs, k)
              /\ (\A x \in DOMAIN cur.kwargs : upper(x) = upper(k) => x = k)
                    => Params[upper(k)] = cur.kwargs[k]

C2_Witness ==
    /\ Sent
    /\ cur.op = "_call"
    /\ s_amt \in DOMAIN cur.kwargs
    /\ s_AMT \in DOMAIN cur.kwargs
    /\ cur.kwargs[s_amt] # cur.kwargs[s_AMT]
    /\ Params[s_AMT] = cur.kwargs[s_amt]

\* No spelling of the name is among the keywords.
Without(kw, name) == Given(kw, name) = {}

\* C3: generate_cart_upload_redirect_url without one of its four required
\* parameters raises PayPalError, builds no URL and issues no request;
\* do_mass_pay without l_email0 validates nothing locally, issues the request
\* with the parameters it was given, and a failure reply of the service
\* surfaces as PayPalAPIResponseError.
C3_MissingRequired ==
    /\ (/\ pc = "done"
        /\ cur.op = "generate_cart_upload_redirect_url"
        /\ \E i \in 1..Len(required_vals) : Without(cur.kw, required_vals[i]))
       => /\ outcome.kind = "PayPalError"
          /\ http = <<>>
          /\ url_values = EmptyDict
    /\ (/\ pc # "idle"
        /\ cur.op = "do_mass_pay"
        /\ Without(cur.kw, s_l_email0))
       => /\ outcome.kind # "PayPalError"
          /\ pc \in {"reply", "done"} =>
                /\ Len(http) = 1
                /\ upper(s_l_email0) \notin DOMAIN Params
                /\ \A k \in DOMAIN cur.kw : upper(k) \in DOMAIN Params
          /\ (pc = "done" /\ \E i \in 1..Len(req_text) : req_text[i] = <<s_ACK, s_Failure>>)
                => outcome.kind = "PayPalAPIResponseError"

C3_Witness ==
    /\ pc = "done"
    /\ cur.op = "do_mass_pay"
    /\ Without(cur.kw, s_l_email0)
    /\ DOMAIN cur.kw # {}
    /\ Len(http) = 1
    /\ outcome.kind = "PayPalAPIResponseError"
    /\ HasField(outcome.response, s_L_LONGMESSAGE0)
    /\ Field(outcome.response, s_L_LONGMESSAGE0) = LongMessage

\* The PayPal method each wrapper is meant to bind
MethodOf(op) ==
    CASE op = "address_verify" -> "AddressVerify"
      [] op = "create_recurring_payments_profile" -> "CreateRecurringPaymentsProfile"
      [] op = "do_authorization" -> "DoAuthorization"
      [] op = "do_capture" -> "DoCapture"
      [] op = "do_direct_payment" -> "DoDirectPayment"
      [] op = "do_mass_pay" -> "MassPay"
      [] op = "do_void" -> "DoVoid"
      [] op = "get_express_checkout_details" -> "GetExpressCheckoutDetails"
      [] op = "get_transaction_details" -> "GetTransactionDetails"
      [] op = "set_express_checkout" -> "SetExpressCheckout"
      [] op = "do_express_checkout_payment" -> "DoExpressCheckoutPayment"
      [] op = "get_recurring_payments_profile_details" -> "GetRecurringPaymentsProfileDetails"
      [] op = "manage_recurring_payments_profile_status" -> "ManageRecurringPaymentsProfileStatus"
      [] op = "update_recurring_payments_profile" -> "UpdateRecurringPaymentsProfile"
      [] op = "bm_create_button" -> "BMCreateButton"

\* C4: whatever the caller's arguments, a wrapper transmits its own fixed
\* method name as METHOD and the configured API version as VERSION.
C4_FixedMethodAndVersion ==
    (Sent /\ cur.op # "_call") =>
        /\ Params[s_METHOD] = Str(MethodOf(cur.op))
        /\ Params[s_VERSION] = Str(config.API_VERSION)

\* C5: a call of _call issues exactly one GET, before the response is
\* parsed, and a failure reply ends the call with the error at once, without
\* a second request.
C5_OneRoundTrip ==
    /\ pc = "request" => http = <<>> /\ response = None /\ outcome = NoOutcome
    /\ pc = "reply" => Len(http) = 1 /\ response = None /\ outcome = NoOutcome
    /\ (pc = "done" /\ cur.method # "") =>
          /\ Len(http) = 1
          /\ http[1] = Request(config, url_values)
          /\ response # None
          /\ outcome.kind \in {"return", "PayPalAPIResponseError"}
          /\ ~ success(response) => outcome.kind = "PayPalAPIResponseError"

C5_Witness ==
    /\ pc = "done"
    /\ cur.op = "do_void"
    /\ Len(http) = 1
    /\ ~ success(response)
    /\ outcome.kind = "PayPalAPIResponseError"

\* The reply's ACK is an accepted success token, letter case aside.
AckAccepted(text) ==
    \E i \in 1..Len(text) :
        /\ text[i][1] = s_ACK
        /\ lower(text[i][2]) \in {lower(t) : t \in AcceptedSuccess}

\* C6: the success flag is true exactly when the reply's ACK is an accepted
\* success token compared without regard to case; _call raises for exactly
\* the other replies; the absence of any other field makes neither the
\* parsing nor _call fail.
C6_SuccessIsAck ==
    CallDone =>
        /\ success(response) <=> AckAccepted(req_text)
        /\ (outcome.kind = "PayPalAPIResponseError") <=> ~ AckAccepted(req_text)
        /\ (outcome.kind = "return") <=> AckAccepted(req_text)
        /\ \A k \in {s_CORRELATIONID, s_L_LONGMESSAGE0} :
              HasField(response, k) <=> \E i \in 1..Len(req_text) : req_text[i][1] = k

C6_Witness ==
    /\ CallDone
    /\ outcome.kind = "return"
    /\ Field(outcome.value, s_ACK) = s_success
    /\ ~ HasField(outcome.value, s_CORRELATIONID)

\* C7: no operation, returning or raising, changes a field of the
\* configuration or makes the interface refer to another config object.
C7_ConfigNeverMutated ==
    [][objects' = objects /\ self_config' = self_config]_vars

C7_Witness ==
    /\ pc = "done"
    /\ cur.op = "generate_cart_upload_redirect_url"
    /\ outcome.kind = "PayPalError"
    /\ config \in Configs
    /\ config.API_AUTHENTICATION_MODE = "UNIPAY"

\* The named arguments of the wrappers that also take free keywords
NamedArguments(op) ==
    CASE op = "do_capture" -> {s_authorizationid, s_amt, s_completetype}
      [] op = "do_direct_payment" -> {s_paymentaction}
      [] op = "update_recurring_payments_profile" -> {s_profileid}
      [] op = "bm_create_button" -> {}

\* C8: do_capture, do_direct_payment, update_recurring_payments_profile and
\* bm_create_button transmit exactly METHOD, VERSION, the authentication
\* fields, their named arguments and the caller's keywords, upper-cased, and
\* every transmitted value is a string.
C8_FlatStringMap ==
    (Sent /\ cur.op \in {"do_capture", "do_direct_payment",
                         "update_recurring_payments_profile", "bm_create_button"}) =>
        /\ DOMAIN Params =
              {s_METHOD, s_VERSION} \cup DOMAIN Credentials(config)
                 \cup {upper(k) : k \in NamedArguments(cur.op) \cup DOMAIN cur.kw}
        /\ \A n \in DOMAIN Params : Params[n].kind = "str"

\* C9: the credentials transmitted depend on the authentication mode alone:
\* 3TOKEN sends the configured USER, PWD and SIGNATURE and no SUBJECT of the
\* configuration, UNIPAY sends the configured SUBJECT and none of the other
\* three, any other mode sends none of the four.
C9_CredentialsByMode ==
    Sent =>
        LET mode == config.API_AUTHENTICATION_MODE
            FromCaller(n) == n \in DOMAIN Params => Params[n] \in Given(cur.kwargs, n)
        IN  /\ mode = "3TOKEN" =>
                 /\ {s_USER, s_PWD, s_SIGNATURE} \subseteq DOMAIN Params
                 /\ Params[s_USER] = Str(config.API_USERNAME)
                 /\ Params[s_PWD] = Str(config.API_PASSWORD)
                 /\ Params[s_SIGNATURE] = Str(config.API_SIGNATURE)
                 /\ FromCaller(s_SUBJECT)
            /\ mode = "UNIPAY" =>
                 /\ s_SUBJECT \in DOMAIN Params
                 /\ Params[s_SUBJECT] = Str(config.UNIPAY_SUBJECT)
                 /\ \A n \in {s_USER, s_PWD, s_SIGNATURE} : FromCaller(n)
            /\ mode \notin {"3TOKEN", "UNIPAY"} =>
                 \A n \in {s_USER, s_PWD, s_SIGNATURE, s_SUBJECT} : FromCaller(n)

\* C10: do_direct_payment transmits PAYMENTACTION = 'Sale' when the caller
\* gives no payment action and the caller's value when the caller gives one
\* under any spelling of the name; do_capture does the same with
\* COMPLETETYPE = 'Complete'.
C10_DefaultsYield ==
    Sent =>
        /\ cur.op = "do_direct_payment" =>
              IF Without(cur.kw, s_paymentaction)
              THEN Params[s_PAYMENTACTION] = Str("Sale")
              ELSE Params[s_PAYMENTACTION] \in Given(cur.kw, s_paymentaction)
        /\ cur.op = "do_capture" =>
              IF Without(cur.kw, s_completetype)
              THEN Params[s_COMPLETETYPE] = Str("Complete")
              ELSE Params[s_COMPLETETYPE] \in Given(cur.kw, s_completetype)

\* The required name at position i is among the keywords in neither its
\* all-lower-case nor its all-upper-case spelling.
Absent(kw, requires, i) ==
    \A k \in DOMAIN kw : k # lower(requires[i]) /\ k # upper(requires[i])

\* C11: _check_required raises PayPalError if and only if some required name
\* is among the keywords in neither its lower-case nor its upper-case
\* spelling (a mixed-case spelling does not count); the error names the first
\* such name in the order of requires; otherwise the check returns and the
\* URL is built; in both cases the keywords are left as the caller gave them.
C11_CheckRequired ==
    (pc = "done" /\ cur.op = "generate_cart_upload_redirect_url") =>
        /\ (outcome.kind = "PayPalError")
              <=> \E i \in 1..Len(required_vals) : Absent(cur.kw, required_vals, i)
        /\ outcome.kind = "PayPalError" =>
              \E i \in 1..Len(required_vals) :
                 /\ outcome.req = required_vals[i]
                 /\ Absent(cur.kw, required_vals, i)
                 /\ \A j \in 1..(i - 1) : ~ Absent(cur.kw, required_vals, j)
        /\ outcome.kind # "PayPalError" =>
              /\ outcome.kind = "return"
              /\ {outcome.value.additional[n] : n \in 1..Len(outcome.value.additional)}
                    = {<<quote_plus(k), quote_plus(cur.kw[k])>> : k \in DOMAIN cur.kw}
        /\ cur.kwargs = cur.kw

C11_Witness ==
    /\ pc = "done"
    /\ cur.op = "generate_cart_upload_redirect_url"
    /\ s_Business \in DOMAIN cur.kw
    /\ upper(s_item_name_1) \in DOMAIN cur.kw
    /\ Absent(cur.kw, required_vals, 3)
    /\ Absent(cur.kw, required_vals, 4)
    /\ outcome.kind = "PayPalError"
    /\ outcome.req = s_business

Next ==
    \/ address_verify
    \/ create_recurring_payments_profile
    \/ do_authorization
    \/ do_capture
    \/ do_direct_payment
    \/ do_mass_pay
    \/ do_void
    \/ get_express_checkout_details
    \/ get_transaction_details
    \/ set_express_checkout
    \/ do_express_checkout_payment
    \/ get_recurring_payments_profile_details
    \/ manage_recurring_payments_profile_status
    \/ update_recurring_payments_profile
    \/ bm_create_button
    \/ generate_express_checkout_redirect_url
    \/ generate_cart_upload_redirect_url
    \/ call
    \/ requests_get
    \/ _call_response
    \/ Resume

Spec == Init /\ [][Next]_vars
====
